---- MODULE Spec2Model ----
(***************************************************************************)
(* A model of python-domino's Domino client (src/domino/domino.py):        *)
(*   - runs_start_blocking, the blocking poll loop (lines 80-177), with    *)
(*     get_run_info (225-228) and runs_stdout (230-241);                   *)
(*   - the version check of __init__ (28-37), requires_at_least, the       *)
(*     per-method version gate (452-456), and the methods that call it.    *)
(* The HTTP collaborator (request_manager) is the environment: each of its *)
(* calls (submission, status fetch, log fetch) either returns or raises    *)
(* requests.exceptions.RequestException.  The clock advances in time.sleep *)
(* and while a status fetch is under way.                                  *)
(***************************************************************************)
EXTENDS Integers, Sequences, FiniteSets, TLC

VARIABLES
    pc,                   \* position of the caller: "idle", "poll", "done"
    poll_freq,            \* argument poll_freq
    max_poll_time,        \* argument max_poll_time
    retry_count,          \* argument retry_count
    now,                  \* time.time(), the wall clock
    poll_start,           \* local poll_start (line 132)
    run_response,         \* local run_response (line 128)
    run_id,               \* local run_id (line 130)
    current_retry_count,  \* local current_retry_count
    run_info,             \* local run_info, NoRunInfo for Python's None
    elapsed_time,         \* local elapsed_time (line 148)
    stdout_msg,           \* local stdout_msg (line 166)
    outcome,              \* how the call ended, "none" while it runs
    exc_msg,              \* message of the Exception the loop raised
    returned,             \* the value returned at line 177
    \* history of the call, observed at the collaborator and the clock
    lastFetch,            \* result of the last status fetch: "none", "ok", "error"
    consecFails,          \* status fetches that raised since the last one that returned
    logFetches,           \* number of runs_stdout calls
    fetchedLog,           \* <<text>> for the stdout the collaborator returned, else <<>>
    recoveredFrom,        \* how many fetches had raised in a row when the last one returned
    lateFetches,          \* status fetches issued after max_poll_time had been exceeded
    sawCommit,            \* a fetch within the budget returned the run with an output commit
    sawNone,              \* a fetch within the budget found no run with the id
    retrySlept,           \* seconds the clock advanced in the sleeps of line 145
    pollSlept,            \* seconds the clock advanced in the sleeps of line 161
    fetchSpent,           \* seconds the clock advanced during the status fetches
    lastSleep,            \* seconds the clock advanced in the last iteration's sleep
    slept,                \* whether the last iteration ended in time.sleep(poll_freq)
    ends,                 \* number of times the call returned or raised
    \* the version gate
    minimum_version,      \* the minimum version the client supports (helpers)
    version,              \* the version the deployment reports, a str
    method,               \* the gated method called, "none" before the call
    at_least_version,     \* argument of the last requires_at_least call
    gate                  \* "new" before __init__, then "incompatible" or "idle",
                          \* then what the gated method did: "passed", "raised"

codeVars == <<pc, poll_freq, max_poll_time, retry_count, now, poll_start,
              run_response, run_id, current_retry_count, run_info, elapsed_time,
              stdout_msg, outcome, exc_msg, returned>>
historyVars == <<lastFetch, consecFails, recoveredFrom, logFetches, fetchedLog,
                 lateFetches, sawCommit, sawNone, retrySlept, pollSlept, fetchSpent,
                 lastSleep, slept, ends>>
pollerVars == <<codeVars, historyVars>>
gateVars == <<minimum_version, version, method, at_least_version, gate>>
vars == <<pollerVars, gateVars>>

(***************************************************************************)
(* Bounds of the model.                                                    *)
(***************************************************************************)
MaxPollFreq == 2
MaxPollTime == 3
MaxRetryCount == 1

\* the defaults of runs_start_blocking
DefaultPollFreq == 5
DefaultMaxPollTime == 6000
DefaultRetryCount == 5

StartClocks == {0, 7}
FetchTimes == {0, 1}
RunIds == {"r1", "r2"}
Statuses == {"Pending", "Running", "Succeeded", "Failed"}

(***************************************************************************)
(* Python values.                                                          *)
(***************************************************************************)
PyNone == "<None>"

\* the values of a listed run's outputCommitId: null, empty, a commit
CommitIds == {PyNone, "", "c1"}
NoRunInfo == [none |-> TRUE]

\* dict.get(key): the value, or None when the key is missing
DictGet(d, k) == IF k \in DOMAIN d THEN d[k] ELSE PyNone

\* a test for None alone, which takes an empty string for a value
PyNotNoneOnly(x) == x = PyNone

\* `not x` for x a string or None
PyNot(x) == x = PyNone \/ x = ""

\* None where the code holds a submission response (no response yet, or
\* nothing returned)
NoResponse == [none |-> TRUE]

\* the id the server gives the submitted run
SubmittedIds == {"r1"}

\* runs_start: the JSON the server answers a submission with
RunResponses ==
    [runId : SubmittedIds] \cup [runId : SubmittedIds, message : {"Run started"}]

\* a run as the server lists it; until output exists outputCommitId is
\* missing, null or empty
RunInfos ==
    [id : RunIds, status : Statuses]
    \cup [id : RunIds, status : Statuses, outputCommitId : CommitIds]

\* a second run of the project: one under way, one finished
OtherRuns ==
    [id : RunIds, status : {"Running"}]
    \cup [id : RunIds, status : {"Succeeded"}, outputCommitId : {"c1"}]

\* runs_list()['data']: the server's runs, each id at most once: no run, one
\* run, or a run and a second one, in either order
RunLists ==
    {<<>>}
    \cup {<<a>> : a \in RunInfos}
    \cup {p \in {<<a, b>> : a \in RunInfos, b \in OtherRuns}
                    \cup {<<b, a>> : a \in RunInfos, b \in OtherRuns} :
                p[1].id # p[2].id}

\* get_run_info: the first listed run with the id, None when there is none
RECURSIVE get_run_info(_, _)
get_run_info(data, rid) ==
    IF data = <<>> THEN NoRunInfo
    ELSE IF Head(data).id = rid THEN Head(data)
    ELSE get_run_info(Tail(data), rid)

(***************************************************************************)
(* Python str.  A str is a sequence of characters; Str gives the text of   *)
(* one, for the messages.  The characters of the model are the ASCII ones  *)
(* a string can name: the printable ones but the backquote, tab, newline,  *)
(* form feed and carriage return.  Ord has no value for any other          *)
(* character, and so neither has an operator that classifies one.          *)
(***************************************************************************)
Digits == <<"0", "1", "2", "3", "4", "5", "6", "7", "8", "9">>

\* the digits of the \xNN escapes
HexDigits == Digits \o <<"a", "b", "c", "d", "e", "f">>

\* the printable ASCII characters from the space (32) to the underscore (95)
PrintableLow ==
    <<" ", "!", "\"", "#", "$", "%", "&", "'", "(", ")", "*", "+",
      ",", "-", ".", "/", "0", "1", "2", "3", "4", "5", "6", "7",
      "8", "9", ":", ";", "<", "=", ">", "?", "@", "A", "B", "C",
      "D", "E", "F", "G", "H", "I", "J", "K", "L", "M", "N", "O",
      "P", "Q", "R", "S", "T", "U", "V", "W", "X", "Y", "Z", "[",
      "\\", "]", "^", "_">>

\* and from a (97) to the tilde (126); a string cannot name the backquote (96)
PrintableHigh ==
    <<"a", "b", "c", "d", "e", "f", "g", "h", "i", "j", "k", "l",
      "m", "n", "o", "p", "q", "r", "s", "t", "u", "v", "w", "x",
      "y", "z", "{", "|", "}", "~">>

\* ord(c)
Ord(c) ==
    IF c = "\t" THEN 9
    ELSE IF c = "\n" THEN 10
    ELSE IF c = "\f" THEN 12
    ELSE IF c = "\r" THEN 13
    ELSE IF \E i \in 1..Len(PrintableLow) : PrintableLow[i] = c
    THEN 31 + (CHOOSE i \in 1..Len(PrintableLow) : PrintableLow[i] = c)
    ELSE 96 + (CHOOSE i \in 1..Len(PrintableHigh) : PrintableHigh[i] = c)

\* str(n) for n >= 0
RECURSIVE IntStr(_)
IntStr(n) ==
    IF n < 10 THEN <<Digits[n + 1]>>
    ELSE IntStr(n \div 10) \o <<Digits[(n % 10) + 1]>>

\* n copies of a text, one after the other
RECURSIVE Repeat(_, _)
Repeat(chars, n) == IF n = 0 THEN <<>> ELSE chars \o Repeat(chars, n - 1)

\* the characters of a str, as a TLC string
RECURSIVE Str(_)
Str(chars) ==
    IF chars = <<>> THEN ""
    ELSE IF Len(chars) = 1 THEN chars[1]
    ELSE Str(SubSeq(chars, 1, Len(chars) \div 2))
         \o Str(SubSeq(chars, (Len(chars) \div 2) + 1, Len(chars)))

\* the quote repr chooses: double quotes when the text has ' and no "
ReprQuote(chars) ==
    IF (\E i \in 1..Len(chars) : chars[i] = "'") /\ ~(\E i \in 1..Len(chars) : chars[i] = "\"")
    THEN "\"" ELSE "'"

\* one character as repr writes it inside the quotes q: the quote and the
\* backslash after a backslash, tab, newline and carriage return by their
\* letter, any other character below the space, and the delete, as \xNN
ReprChar(c, q) ==
    IF c = q \/ c = "\\" THEN <<"\\", c>>
    ELSE IF c = "\t" THEN <<"\\", "t">>
    ELSE IF c = "\n" THEN <<"\\", "n">>
    ELSE IF c = "\r" THEN <<"\\", "r">>
    ELSE IF Ord(c) < 32 \/ Ord(c) = 127
    THEN <<"\\", "x", HexDigits[(Ord(c) \div 16) + 1], HexDigits[(Ord(c) % 16) + 1]>>
    ELSE <<c>>

RECURSIVE ReprBody(_, _)
ReprBody(chars, q) ==
    IF chars = <<>> THEN <<>>
    ELSE IF Len(chars) = 1 THEN ReprChar(chars[1], q)
    ELSE ReprBody(SubSeq(chars, 1, Len(chars) \div 2), q)
         \o ReprBody(SubSeq(chars, (Len(chars) \div 2) + 1, Len(chars)), q)

\* repr(s) for a str
Repr(chars) == <<ReprQuote(chars)>> \o ReprBody(chars, ReprQuote(chars)) \o <<ReprQuote(chars)>>

\* the columns of pprint.PrettyPrinter
Width == 80

\* the white space of the pattern \s, for an ASCII character: tab, newline,
\* vertical tab, form feed, carriage return, the four separators, space
IsSpace(c) == Ord(c) \in {9, 10, 11, 12, 13, 28, 29, 30, 31, 32}

\* the characters str.splitlines ends a line at, for an ASCII character:
\* newline, vertical tab, form feed, carriage return, three separators
IsLineBreak(c) == Ord(c) \in {10, 11, 12, 13, 28, 29, 30}

\* length of the first line of a text, its line end included; a carriage
\* return and the newline after it are one line end
LineLen(chars) ==
    IF \E i \in 1..Len(chars) : IsLineBreak(chars[i])
    THEN LET first == CHOOSE i \in 1..Len(chars) :
                          /\ IsLineBreak(chars[i])
                          /\ \A j \in 1..(i - 1) : ~IsLineBreak(chars[j])
         IN IF chars[first] = "\r" /\ first < Len(chars) /\ chars[first + 1] = "\n"
            THEN first + 1
            ELSE first
    ELSE Len(chars)

\* str.splitlines(True)
RECURSIVE SplitLines(_)
SplitLines(chars) ==
    IF chars = <<>> THEN <<>>
    ELSE <<SubSeq(chars, 1, LineLen(chars))>>
         \o SplitLines(SubSeq(chars, LineLen(chars) + 1, Len(chars)))

\* length of the longest prefix without white space (\S*)
NonSpaceLen(chars) ==
    CHOOSE n \in 0..Len(chars) :
        /\ \A i \in 1..n : ~IsSpace(chars[i])
        /\ n < Len(chars) => IsSpace(chars[n + 1])

\* length of the longest prefix of white space (\s*)
SpaceLen(chars) ==
    CHOOSE n \in 0..Len(chars) :
        /\ \A i \in 1..n : IsSpace(chars[i])
        /\ n < Len(chars) => ~IsSpace(chars[n + 1])

\* length of the first match of \S*\s*
PartLen(chars) ==
    NonSpaceLen(chars) + SpaceLen(SubSeq(chars, NonSpaceLen(chars) + 1, Len(chars)))

\* re.findall(r'\S*\s*', line) without its empty last match
RECURSIVE Parts(_)
Parts(chars) ==
    IF chars = <<>> THEN <<>>
    ELSE <<SubSeq(chars, 1, PartLen(chars))>>
         \o Parts(SubSeq(chars, PartLen(chars) + 1, Len(chars)))

\* the chunks of one line too long for its width: parts are joined while
\* the repr of the joined text fits
RECURSIVE WrapParts(_, _, _, _)
WrapParts(parts, current, width, lastWidth) ==
    IF parts = <<>> THEN (IF current = <<>> THEN <<>> ELSE <<Repr(current)>>)
    ELSE LET candidate == current \o Head(parts)
             limit == IF Len(parts) = 1 THEN lastWidth ELSE width
         IN IF Len(Repr(candidate)) > limit
            THEN (IF current = <<>> THEN <<>> ELSE <<Repr(current)>>)
                 \o WrapParts(Tail(parts), Head(parts), width, lastWidth)
            ELSE WrapParts(Tail(parts), candidate, width, lastWidth)

\* the chunks of the lines of a text (_pprint_str at level 1: indent 1, allowance 1)
RECURSIVE Chunks(_)
Chunks(lines) ==
    IF lines = <<>> THEN <<>>
    ELSE LET line == Head(lines)
             last == Len(lines) = 1
             width1 == IF last THEN Width - 2 ELSE Width - 1
         IN (IF Len(Repr(line)) <= width1 THEN <<Repr(line)>>
             ELSE WrapParts(Parts(line), <<>>, Width - 1,
                            IF last THEN Width - 2 ELSE Width - 1))
            \o Chunks(Tail(lines))

RECURSIVE JoinChunks(_)
JoinChunks(chunks) ==
    IF Len(chunks) = 1 THEN Head(chunks)
    ELSE Head(chunks) \o <<"\n", " ">> \o JoinChunks(Tail(chunks))

\* pprint.pformat(s) for a str
pformat(chars) ==
    IF Len(Repr(chars)) <= Width THEN Repr(chars)
    ELSE LET lines == SplitLines(chars)
             chunks == Chunks(lines)
         IN IF Len(chunks) = 1 THEN Repr(lines[Len(lines)])
            ELSE <<"(">> \o JoinChunks(chunks) \o <<")">>

\* the stdout texts the collaborator returns
Logs ==
    {<<"o", "k">>,
     <<"b", "o", "o", "m">>,
     <<"i", "t", "'", "s">>,
     <<"a", "\n", "b">>,
     <<"1", "0", "%", "\r", "d", "o", "n", "e", "\r", "\n">>,
     Repeat(<<"w", "o", "r", "d", " ">>, 20) \o <<"\r", "\n", "p", "\f", "q">>,
     Repeat(<<"w", "o", "r", "d", " ">>, 30)}

\* runs_stdout of each text: pprint.pformat(self._get(url)['stdout'])
FormattedLogs == [text \in Logs |-> Str(pformat(text))]

\* runs_stdout: the formatted stdout of the run
runs_stdout(text) == FormattedLogs[text]

\* n spaces
Spaces(n) == Str(Repeat(<<" ">>, n))

\* the indentation of the continuation lines of the two messages, which the
\* backslash at the end of the line before keeps inside the text
HeaderIndent == Spaces(34)
TimeoutIndent == Spaces(32)

\* header_msg of a run that finished without succeeding (lines 169-171)
header_msg(rid) ==
    "Remote run " \o rid \o " " \o HeaderIndent \o "finished but did not succeed.\n"

\* the message of line 142
RetryMessage(limit) ==
    "Cannot get run info, max retry " \o Str(IntStr(limit)) \o " exceeded"

\* the message of lines 151-153
TimeoutMessage(limit) ==
    "Run " \o TimeoutIndent \o "exceeded maximum time of " \o TimeoutIndent
    \o Str(IntStr(limit)) \o " seconds"

\* the message of lines 156-157
UnknownRunMessage(rid) == "Tried to access nonexistent run id " \o rid \o "."

\* time.time() - poll_start
Elapsed(t, start) == t - start

\* a strict comparison, which lets the loop run at exactly max_poll_time
TimedOutStrict(elapsed, limit) == elapsed > limit

\* elapsed_time >= max_poll_time
TimedOut(elapsed, limit) == elapsed >= limit

\* an off-by-one comparison, which gives up one failure early
RetriesExceededOffByOne(count, limit) == count >= limit

\* current_retry_count > retry_count
RetriesExceeded(count, limit) == count > limit

\* a sleep of a fixed second, whatever was asked
SleepOneSecond(t, seconds) == t + 1

\* the clock after time.sleep(seconds)
Sleep(t, seconds) == t + seconds

\* run_info['status'] != 'Succeeded'
NotSucceeded(info) == info.status # "Succeeded"

\* the check for None left out
IsNoneNever(info) == FALSE

\* run_info is None
IsNone(info) == info = NoRunInfo

\* the reset left out
AfterFetchKeep(count) == count

\* current_retry_count after a fetch that returned (line 137)
AfterFetch(count) == 0

\* the message raised for a run that did not succeed (line 172)
FailureMessage(rid, msg) == header_msg(rid) \o msg

(***************************************************************************)
(* Version strings.  A Python str is a sequence of characters; str         *)
(* comparison is by code point, position by position.                      *)
(***************************************************************************)
Dot == "."

\* ".".join(str(p) for p in parts)
RECURSIVE VersionStr(_)
VersionStr(parts) ==
    IF Len(parts) = 1 THEN IntStr(parts[1])
    ELSE IntStr(parts[1]) \o <<Dot>> \o VersionStr(Tail(parts))

\* a > b for two str
RECURSIVE StrGreater(_, _)
StrGreater(a, b) ==
    IF a = <<>> THEN FALSE
    ELSE IF b = <<>> THEN TRUE
    ELSE IF Head(a) = Head(b) THEN StrGreater(Tail(a), Tail(b))
    ELSE Ord(Head(a)) > Ord(Head(b))

\* requires_at_least raises when at_least_version > self._version
requires_at_least(at_least, deployed) == StrGreater(at_least, deployed)

\* the minimum each gated method declares
MinVersion ==
    [collaborators_get |-> VersionStr(<<1, 53, 0, 0>>),
     collaborators_add |-> VersionStr(<<1, 53, 0, 0>>),
     environments_list |-> VersionStr(<<2, 5, 0>>),
     models_list |-> VersionStr(<<2, 5, 0>>),
     model_publish |-> VersionStr(<<2, 5, 0>>),
     model_versions_get |-> VersionStr(<<2, 5, 0>>),
     model_version_publish |-> VersionStr(<<2, 5, 0>>)]

GatedMethods == DOMAIN MinVersion

\* versions a deployment may report
VersionParts == {0, 1, 2, 5, 6, 10, 53}
DeployedVersions ==
    {VersionStr(<<a, b, c>>) : a \in VersionParts, b \in VersionParts, c \in VersionParts}
    \cup {VersionStr(<<a, b, c, 0>>) : a \in VersionParts, b \in VersionParts,
                                       c \in VersionParts}

\* minimums a user of the client may pass to requires_at_least
RequestedMinimums == {VersionStr(<<2, 5, 0>>), VersionStr(<<10, 0, 0>>)}

\* the minimum deployment version the client supports: helpers holds it, the
\* candidates are a release older than, equal to and newer than the minimums
\* the gated methods declare
ClientMinimums ==
    {VersionStr(<<1, 0, 0>>), VersionStr(<<1, 53, 0, 0>>), VersionStr(<<4, 1, 0>>)}

\* helpers.is_version_compatible: the deployment's version is not below the
\* client's minimum, the two compared as str
is_version_compatible(deployed, minimum) == ~StrGreater(minimum, deployed)

(***************************************************************************)
(* The state before runs_start_blocking is called.                         *)
(***************************************************************************)
PollerIdle(pf, mt, rc, t0) ==
    /\ pc = "idle"
    /\ poll_freq = pf
    /\ max_poll_time = mt
    /\ retry_count = rc
    /\ now = t0
    /\ poll_start = 0
    /\ run_response = NoResponse
    /\ run_id = PyNone
    /\ current_retry_count = 0
    /\ run_info = NoRunInfo
    /\ elapsed_time = 0
    /\ stdout_msg = PyNone
    /\ outcome = "none"
    /\ exc_msg = PyNone
    /\ returned = NoResponse
    /\ lastFetch = "none"
    /\ consecFails = 0
    /\ recoveredFrom = 0
    /\ logFetches = 0
    /\ fetchedLog = <<>>
    /\ lateFetches = 0
    /\ sawCommit = FALSE
    /\ sawNone = FALSE
    /\ retrySlept = 0
    /\ pollSlept = 0
    /\ fetchSpent = 0
    /\ lastSleep = 0
    /\ slept = FALSE
    /\ ends = 0

\* the state of the version gate: st is "new" before __init__ has run
GateState(minimum, v, st) ==
    /\ minimum_version = minimum
    /\ version = v
    /\ method = "none"
    /\ at_least_version = <<>>
    /\ gate = st

\* a client on a deployment its constructor has accepted, before the call
Init ==
    /\ \E pf \in 1..MaxPollFreq, mt \in 1..MaxPollTime, rc \in 0..MaxRetryCount,
          t0 \in StartClocks : PollerIdle(pf, mt, rc, t0)
    /\ GateState(VersionStr(<<4, 1, 0>>), VersionStr(<<4, 6, 0>>), "idle")

\* the call ends: it raises or returns, without sleeping
Ends ==
    /\ pc' = "done"
    /\ ends' = ends + 1
    /\ lastSleep' = 0
    /\ slept' = FALSE
    /\ UNCHANGED <<retrySlept, pollSlept>>

(***************************************************************************)
(* runs_start_blocking, lines 128-133: submit the run, start the clock.    *)
(***************************************************************************)
Submit(response) ==
    /\ pc = "idle"
    /\ run_response' = response
    /\ run_id' = response.runId
    /\ poll_start' = now
    /\ current_retry_count' = 0
    /\ pc' = "poll"
    /\ UNCHANGED <<poll_freq, max_poll_time, retry_count, now, run_info, elapsed_time,
                   stdout_msg, outcome, exc_msg, returned>>
    /\ UNCHANGED historyVars
    /\ UNCHANGED gateVars

\* runs_start raises (line 128, outside the try): the exception leaves the call
SubmitError ==
    /\ pc = "idle"
    /\ outcome' = "RequestException"
    /\ Ends
    /\ UNCHANGED <<poll_freq, max_poll_time, retry_count, now, poll_start, run_response,
                   run_id, current_retry_count, run_info, elapsed_time, stdout_msg,
                   exc_msg, returned>>
    /\ UNCHANGED <<lastFetch, consecFails, recoveredFrom, logFetches, fetchedLog,
                   lateFetches, sawCommit, sawNone, fetchSpent>>
    /\ UNCHANGED gateVars

\* 1 when the status fetch of this iteration is issued with the budget exceeded
Late == IF now - poll_start > max_poll_time THEN 1 ELSE 0

\* whether a fetched run carries an output-commit reference, as lines 159-160
\* see it: the key is there and its value is neither None nor empty
HasOutputCommit(info) ==
    /\ info # NoRunInfo
    /\ "outputCommitId" \in DOMAIN info
    /\ info.outputCommitId \notin {PyNone, ""}

(***************************************************************************)
(* One iteration whose get_run_info raises RequestException after lat      *)
(* seconds (138-146).                                                      *)
(***************************************************************************)
PollFetchError(lat) ==
    /\ pc = "poll"
    /\ current_retry_count' = current_retry_count + 1
    /\ lastFetch' = "error"
    /\ consecFails' = consecFails + 1
    /\ lateFetches' = lateFetches + Late
    /\ fetchSpent' = fetchSpent + lat
    /\ IF RetriesExceeded(current_retry_count + 1, retry_count)
       THEN /\ outcome' = "RetryExhausted"
            /\ exc_msg' = RetryMessage(retry_count)
            /\ now' = now + lat
            /\ Ends
       ELSE /\ now' = Sleep(now + lat, poll_freq)
            /\ retrySlept' = retrySlept + (Sleep(now + lat, poll_freq) - (now + lat))
            /\ lastSleep' = Sleep(now + lat, poll_freq) - (now + lat)
            /\ slept' = TRUE
            /\ UNCHANGED <<outcome, exc_msg, pc, ends, pollSlept>>
    /\ UNCHANGED <<poll_freq, max_poll_time, retry_count, poll_start, run_response,
                   run_id, run_info, elapsed_time, stdout_msg, returned, recoveredFrom,
                   logFetches, fetchedLog, sawCommit, sawNone>>
    /\ UNCHANGED gateVars

(***************************************************************************)
(* One iteration whose get_run_info returns after lat seconds (136-137,    *)
(* 148-175).  With an output commit the log is fetched: runs_stdout        *)
(* returns the formatted text, or raises RequestException, which nothing   *)
(* catches.                                                                *)
(***************************************************************************)
\* what the log fetch may do: <<text>> when it returns, <<>> when it raises
LogResults == {<<>>} \cup {<<text>> : text \in Logs}

PollFetchOk(data, lat) ==
    /\ pc = "poll"
    /\ LET info == get_run_info(data, run_id)
           elapsed == Elapsed(now + lat, poll_start)
       IN
       /\ run_info' = info
       /\ current_retry_count' = AfterFetch(current_retry_count)
       /\ lastFetch' = "ok"
       /\ consecFails' = 0
       /\ recoveredFrom' = consecFails
       /\ lateFetches' = lateFetches + Late
       /\ fetchSpent' = fetchSpent + lat
       /\ sawCommit' = (sawCommit \/ ((now + lat) - poll_start < max_poll_time
                                        /\ HasOutputCommit(info)))
       /\ sawNone' = (sawNone \/ ((now + lat) - poll_start < max_poll_time
                                    /\ info = NoRunInfo))
       /\ elapsed_time' = elapsed
       /\ IF TimedOut(elapsed, max_poll_time)
          THEN /\ outcome' = "Timeout"
               /\ exc_msg' = TimeoutMessage(max_poll_time)
               /\ now' = now + lat
               /\ Ends
               /\ UNCHANGED <<stdout_msg, returned, logFetches, fetchedLog>>
          ELSE IF IsNone(info)
          THEN /\ outcome' = "UnknownRun"
               /\ exc_msg' = UnknownRunMessage(run_id)
               /\ now' = now + lat
               /\ Ends
               /\ UNCHANGED <<stdout_msg, returned, logFetches, fetchedLog>>
          ELSE IF PyNot(DictGet(info, "outputCommitId"))
          THEN /\ now' = Sleep(now + lat, poll_freq)
               /\ pollSlept' = pollSlept + (Sleep(now + lat, poll_freq) - (now + lat))
               /\ lastSleep' = Sleep(now + lat, poll_freq) - (now + lat)
               /\ slept' = TRUE
               /\ UNCHANGED <<outcome, exc_msg, pc, ends, stdout_msg, returned,
                              logFetches, fetchedLog, retrySlept>>
          ELSE /\ logFetches' = logFetches + 1
               /\ now' = now + lat
               /\ Ends
               /\ \E log \in LogResults :
                      /\ fetchedLog' = log
                      /\ IF log = <<>>
                         THEN /\ outcome' = "RequestException"
                              /\ UNCHANGED <<stdout_msg, exc_msg, returned>>
                         ELSE /\ stdout_msg' = runs_stdout(log[1])
                              /\ IF NotSucceeded(info)
                                 THEN /\ outcome' = "RunFailed"
                                      /\ exc_msg' = FailureMessage(run_id,
                                                                   runs_stdout(log[1]))
                                      /\ UNCHANGED returned
                                 ELSE /\ outcome' = "Completed"
                                      /\ returned' = run_response
                                      /\ UNCHANGED exc_msg
    /\ UNCHANGED <<poll_freq, max_poll_time, retry_count, poll_start, run_response,
                   run_id>>
    /\ UNCHANGED gateVars

Next ==
    \/ \E response \in RunResponses : Submit(response)
    \/ SubmitError
    \/ \E lat \in FetchTimes : PollFetchError(lat)
    \/ \E data \in RunLists, lat \in FetchTimes : PollFetchOk(data, lat)

Spec == Init /\ [][Next]_vars

\* the loop is a single thread that always takes its next step
FairSpec == Spec /\ WF_vars(Next)

(***************************************************************************)
(* The constructor's version check (lines 28-37) and the gated methods.    *)
(***************************************************************************)
\* __init__, lines 29-37: read the deployment's version and refuse it when
\* is_version_compatible says no
Construct ==
    /\ gate = "new"
    /\ gate' = IF is_version_compatible(version, minimum_version)
               THEN "idle" ELSE "incompatible"
    /\ UNCHANGED <<minimum_version, version, method, at_least_version>>
    /\ UNCHANGED pollerVars

\* a gated method (collaborators_get, environments_list, ...): it calls
\* requires_at_least with its minimum and goes on only if that returns
CallGated(m) ==
    /\ gate = "idle"
    /\ method' = m
    /\ at_least_version' = MinVersion[m]
    /\ gate' = IF requires_at_least(MinVersion[m], version) THEN "raised" ELSE "passed"
    /\ UNCHANGED <<minimum_version, version>>
    /\ UNCHANGED pollerVars

\* requires_at_least called by the client's user with a minimum of their own
CallRequiresAtLeast(at_least) ==
    /\ gate = "idle"
    /\ method' = "requires_at_least"
    /\ at_least_version' = at_least
    /\ gate' = IF requires_at_least(at_least, version) THEN "raised" ELSE "passed"
    /\ UNCHANGED <<minimum_version, version>>
    /\ UNCHANGED pollerVars

InitGate ==
    /\ PollerIdle(DefaultPollFreq, DefaultMaxPollTime, DefaultRetryCount, 0)
    /\ \E minimum \in ClientMinimums, v \in DeployedVersions :
           GateState(minimum, v, "new")

NextGate ==
    \/ Construct
    \/ \E m \in GatedMethods : CallGated(m)
    \/ \E at_least \in RequestedMinimums : CallRequiresAtLeast(at_least)

SpecGate == InitGate /\ [][NextGate]_vars

(***************************************************************************)
(* Properties of the poll loop.                                            *)
(***************************************************************************)
Outcomes == {"Completed", "RunFailed", "Timeout", "RetryExhausted", "UnknownRun"}

\* the submission returned: there is a run to poll
Submitted == run_id # PyNone

\* the last status fetch returned, with the wait budget not yet used up
FetchedInBudget == lastFetch = "ok" /\ elapsed_time < max_poll_time

\* the run the last fetch returned is listed without an output-commit reference
LacksCommit(info) == info # NoRunInfo /\ ~HasOutputCommit(info)

\* C1: a run fetched within the wait budget with status Succeeded and an
\* output-commit reference ends the call: it returns the submission's response,
\* once, after exactly one log fetch, and raises nothing.
C1_SucceededCompletes ==
    (FetchedInBudget /\ HasOutputCommit(run_info) /\ run_info.status = "Succeeded")
        => /\ pc = "done"
           /\ outcome = "Completed"
           /\ ends = 1
           /\ logFetches = 1
           /\ returned = run_response
           /\ exc_msg = PyNone

\* the run is Succeeded with an output commit, in budget, after a poll sleep,
\* and the call ended with the log fetch's RequestException
C1_Witness ==
    /\ FetchedInBudget
    /\ HasOutputCommit(run_info)
    /\ run_info.status = "Succeeded"
    /\ pollSlept > 0
    /\ logFetches = 1
    /\ fetchedLog = <<>>
    /\ outcome = "RequestException"
    /\ returned = NoResponse

\* C2 as stated: a run that shows no output-commit reference before
\* max_poll_time elapses makes the call fail with Timeout, whatever its status.
\* Stated for a run that every fetch within the budget found listed.
C2_NoCommitTimesOut ==
    (pc = "done" /\ run_info # NoRunInfo /\ ~sawCommit /\ ~sawNone)
        => outcome = "Timeout"

\* C2 as amended: while no fetch within the budget has shown the run with an
\* output-commit reference, the call fetches no log and never completes or
\* reports RunFailed; it ends with Timeout at the first status fetch that
\* returns with max_poll_time or more elapsed, with UnknownRun at a fetch
\* within the budget that does not list the run, and with RetryExhausted at the
\* status fetch that uses up the retries; otherwise it keeps polling.
C2_NoCommitEndsWithoutLog ==
    (Submitted /\ ~sawCommit)
        => /\ outcome \in {"none", "Timeout", "RetryExhausted", "UnknownRun"}
           /\ logFetches = 0
           /\ (pc = "done" /\ lastFetch = "ok")
                  => outcome = IF elapsed_time >= max_poll_time THEN "Timeout"
                               ELSE "UnknownRun"
           /\ outcome = "UnknownRun" => run_info = NoRunInfo
           /\ (pc = "done" /\ lastFetch = "error") => outcome = "RetryExhausted"
           /\ (pc = "poll" /\ lastFetch = "ok")
                  => (elapsed_time < max_poll_time /\ LacksCommit(run_info))

\* a Succeeded run listed with an empty reference at every fetch, timed out
\* after a poll sleep
C2_Witness ==
    /\ outcome = "Timeout"
    /\ ~sawCommit
    /\ ~sawNone
    /\ LacksCommit(run_info)
    /\ run_info.status = "Succeeded"
    /\ DictGet(run_info, "outputCommitId") = ""
    /\ pollSlept > 0

\* C3: when the status fetch has raised retry_count + 1 times in a row the call
\* has ended with RetryExhausted, at that fetch, without a sleep or a log fetch;
\* the loop never sees more than retry_count + 1 failures in a row.
C3_RetryExhausted ==
    /\ consecFails <= retry_count + 1
    /\ consecFails = retry_count + 1
           => /\ pc = "done"
              /\ outcome = "RetryExhausted"
              /\ exc_msg = RetryMessage(retry_count)
              /\ ends = 1
              /\ lastFetch = "error"
              /\ ~slept
              /\ logFetches = 0
    /\ outcome = "RetryExhausted" => consecFails = retry_count + 1

C3_Witness ==
    /\ outcome = "RetryExhausted"
    /\ retry_count >= 1
    /\ consecFails = retry_count + 1
    /\ pollSlept > 0

\* C4: a status fetch that returns resets current_retry_count to zero, also
\* after exactly retry_count failures in a row, and does not end the call with
\* RetryExhausted; up to retry_count failures in a row leave the loop polling;
\* the counter equals the number of failures in a row and stays in
\* 0..retry_count+1.
C4_CounterResets ==
    /\ current_retry_count \in 0..(retry_count + 1)
    /\ current_retry_count = consecFails
    /\ lastFetch = "ok" => (current_retry_count = 0 /\ outcome # "RetryExhausted")
    /\ (lastFetch = "error" /\ consecFails <= retry_count)
           => (pc = "poll" /\ outcome = "none" /\ slept)
    /\ recoveredFrom <= retry_count

C4_Witness ==
    /\ retry_count >= 1
    /\ recoveredFrom = retry_count
    /\ lastFetch = "error"
    /\ consecFails = retry_count
    /\ pc = "poll"

\* C5: a run fetched within the wait budget with an output-commit reference
\* and a status other than Succeeded ends the call with RunFailed, whose message
\* is the header followed by the log text runs_stdout returned on that
\* iteration; the call returns nothing.
C5_FailedRunRaises ==
    (FetchedInBudget /\ HasOutputCommit(run_info) /\ run_info.status # "Succeeded")
        => /\ pc = "done"
           /\ outcome = "RunFailed"
           /\ logFetches = 1
           /\ fetchedLog # <<>>
           /\ stdout_msg = runs_stdout(fetchedLog[1])
           /\ exc_msg = header_msg(run_id) \o stdout_msg
           /\ returned = NoResponse

\* the run is Failed with an output commit, in budget, and the call ended with
\* the log fetch's RequestException and no RunFailed message
C5_Witness ==
    /\ FetchedInBudget
    /\ HasOutputCommit(run_info)
    /\ run_info.status = "Failed"
    /\ logFetches = 1
    /\ fetchedLog = <<>>
    /\ outcome = "RequestException"
    /\ exc_msg = PyNone
    /\ pollSlept > 0

\* C6 as stated: a status fetch that finds no run with the id ends the call
\* with UnknownRun, without a sleep, and with no other outcome.  Stated for a
\* handle no earlier fetch has found (no poll sleep was taken) and for an
\* elapsed time other than max_poll_time itself.
C6_UnknownRunAlways ==
    (lastFetch = "ok" /\ run_info = NoRunInfo /\ pollSlept = 0
     /\ elapsed_time # max_poll_time)
        => (pc = "done" /\ outcome = "UnknownRun" /\ ~slept)

\* C6 as amended: a status fetch that finds no run with the id ends the call
\* at once, without a sleep or a log fetch: with UnknownRun when less than
\* max_poll_time has elapsed, with Timeout otherwise.
C6_UnknownRunInBudget ==
    /\ (lastFetch = "ok" /\ run_info = NoRunInfo)
           => /\ pc = "done"
              /\ ~slept
              /\ logFetches = 0
              /\ outcome = IF elapsed_time < max_poll_time THEN "UnknownRun"
                           ELSE "Timeout"
              /\ exc_msg = IF elapsed_time < max_poll_time
                           THEN UnknownRunMessage(run_id)
                           ELSE TimeoutMessage(max_poll_time)
    /\ outcome = "UnknownRun" => (lastFetch = "ok" /\ run_info = NoRunInfo)

C6_Witness ==
    /\ outcome = "UnknownRun"
    /\ run_info = NoRunInfo
    /\ retrySlept > 0

\* C7 as stated: the call completes only on a Succeeded run with a non-empty
\* output-commit reference; a fetched run without the reference never ends the
\* call as Completed or RunFailed and triggers no log fetch: the poller sleeps
\* poll_freq and polls again.  Stated for an elapsed time other than
\* max_poll_time itself.
C7_NoCommitSleeps ==
    /\ outcome = "Completed"
           => (HasOutputCommit(run_info) /\ run_info.status = "Succeeded")
    /\ (lastFetch = "ok" /\ LacksCommit(run_info) /\ elapsed_time # max_poll_time
        /\ run_info.status \in {"Succeeded", "Failed"})
           => /\ outcome \notin {"Completed", "RunFailed"}
              /\ logFetches = 0
              /\ slept
              /\ lastSleep = poll_freq
              /\ pc = "poll"

\* C7 as amended: the same, except that the poller sleeps and polls again only
\* when less than max_poll_time has elapsed; otherwise the call ends with
\* Timeout, still without a log fetch.
C7_NoCommitSleepsInBudget ==
    /\ outcome = "Completed"
           => (HasOutputCommit(run_info) /\ run_info.status = "Succeeded")
    /\ (lastFetch = "ok" /\ LacksCommit(run_info))
           => /\ outcome \notin {"Completed", "RunFailed"}
              /\ logFetches = 0
              /\ IF elapsed_time < max_poll_time
                 THEN slept /\ lastSleep = poll_freq /\ pc = "poll" /\ outcome = "none"
                 ELSE ~slept /\ pc = "done" /\ outcome = "Timeout"

\* a Failed run listed with a null reference, fetched in budget
C7_Witness ==
    /\ lastFetch = "ok"
    /\ LacksCommit(run_info)
    /\ run_info.status = "Failed"
    /\ "outputCommitId" \in DOMAIN run_info
    /\ run_info.outputCommitId = PyNone
    /\ slept
    /\ pc = "poll"

\* C9 as stated: the elapsed time is the wall-clock time since submission, the
\* retry sleeps and the poll sleeps counted alike; an iteration that finds it
\* above max_poll_time ends with Timeout; no status fetch is issued, no log
\* fetched and no sleep taken once it is above max_poll_time.
C9_NothingAfterBudget ==
    /\ Submitted => now - poll_start = retrySlept + pollSlept + fetchSpent
    /\ (lastFetch = "ok" /\ elapsed_time > max_poll_time)
           => (pc = "done" /\ outcome = "Timeout" /\ ~slept /\ logFetches = 0)
    /\ lateFetches = 0

\* C9 as amended: the elapsed time is the wall-clock time since submission:
\* the retry sleeps, the poll sleeps and the time the status fetches took; an
\* iteration whose status fetch returns with max_poll_time or more elapsed ends
\* with Timeout whatever the run shows, without a log fetch or a sleep, and
\* Timeout is raised only there; status fetches are still issued above
\* max_poll_time, at most retry_count + 1 of them.
C9_TimeoutAfterFetch ==
    /\ Submitted => now - poll_start = retrySlept + pollSlept + fetchSpent
    /\ lastFetch = "ok"
           => elapsed_time = (retrySlept + pollSlept + fetchSpent) - lastSleep
    /\ (lastFetch = "ok" /\ elapsed_time >= max_poll_time)
           => /\ pc = "done"
              /\ outcome = "Timeout"
              /\ exc_msg = TimeoutMessage(max_poll_time)
              /\ ~slept
              /\ logFetches = 0
    /\ outcome = "Timeout" => (lastFetch = "ok" /\ elapsed_time >= max_poll_time)
    /\ lateFetches <= retry_count + 1

C9_Witness ==
    /\ outcome = "Timeout"
    /\ HasOutputCommit(run_info)
    /\ run_info.status = "Succeeded"
    /\ retrySlept > 0
    /\ pollSlept > 0
    /\ fetchSpent > 0
    /\ lateFetches > 1

\* C10: every call whose submission returns ends, exactly once, in one of
\* Completed, RunFailed, Timeout, RetryExhausted and UnknownRun.
C10_Terminates ==
    <>(pc = "done" /\ (Submitted => (outcome \in Outcomes /\ ends = 1)))

\* a call that slept in retries and polls ended, once, with the log fetch's
\* RequestException, which is none of the five outcomes
C10_Witness ==
    /\ pc = "done"
    /\ Submitted
    /\ outcome = "RequestException"
    /\ ends = 1
    /\ retrySlept > 0
    /\ pollSlept > 0

(***************************************************************************)
(* Properties of the version gate.                                         *)
(***************************************************************************)
\* int(s) for a string of digits
RECURSIVE StrInt(_)
StrInt(str) ==
    IF str = <<>> THEN 0
    ELSE 10 * StrInt(SubSeq(str, 1, Len(str) - 1)) + (Ord(str[Len(str)]) - Ord("0"))

\* the numeric components of a dotted version string
RECURSIVE VersionNumbers(_, _)
VersionNumbers(str, digits) ==
    IF str = <<>> THEN <<StrInt(digits)>>
    ELSE IF Head(str) = Dot THEN <<StrInt(digits)>> \o VersionNumbers(Tail(str), <<>>)
    ELSE VersionNumbers(Tail(str), Append(digits, Head(str)))

\* component i of a version, zero beyond its last
Component(parts, i) == IF i <= Len(parts) THEN parts[i] ELSE 0

\* version a is older than version b, component by component
Older(a, b) ==
    LET pa == VersionNumbers(a, <<>>)
        pb == VersionNumbers(b, <<>>)
        n == IF Len(pa) > Len(pb) THEN Len(pa) ELSE Len(pb)
    IN \E i \in 1..n :
           /\ Component(pa, i) < Component(pb, i)
           /\ \A j \in 1..(i - 1) : Component(pa, j) = Component(pb, j)

\* C8: on a deployment the constructor accepted, a method that declares a
\* minimum version fails if and only if the deployment's version is older than
\* that minimum.
C8_GateIffOlder ==
    gate \in {"passed", "raised"}
        => (gate = "raised" <=> Older(version, at_least_version))

\* environments_list, which declares 2.5.0, raised on a deployment at 10.0.0
\* that the constructor had accepted
C8_Witness ==
    /\ gate = "raised"
    /\ method = "environments_list"
    /\ version = VersionStr(<<10, 0, 0>>)
    /\ at_least_version = VersionStr(<<2, 5, 0>>)

====
